---------------------------- MODULE Spec2Model ----------------------------
(***************************************************************************)
(* State machine of the dashboard component App (src/fontend/src/App.jsx): *)
(* the push channel with its single-flight reconnection, the bootstrap     *)
(* fetch of the bank list, the router of inbound frames, the start         *)
(* command and the results fetch.                                          *)
(*                                                                         *)
(* One step of the model is one task of the browser's event loop: a        *)
(* handler runs to its next await (or to its end) and React re-renders     *)
(* before the next task.  A log entry is {level, message}; its timestamp   *)
(* (new Date().toLocaleTimeString(), line 98) is left out.                 *)
(***************************************************************************)
EXTENDS Naturals, Sequences, FiniteSets, TLC

VARIABLES
    phase,                \* "new" (rendered, effects not yet run), "mounted", "unmounted"
    banks,                \* useState([])      line 7
    selectedBank,         \* useState('')      line 8
    isRunning,            \* useState(false)   line 9
    logs,                 \* useState([])      line 10
    results,              \* useState([])      line 11
    showResults,          \* useState(false)   line 12
    wsConnected,          \* useState(false)   line 13
    wsRef,                \* useRef(null)      line 15: the slot of the last WebSocket created
    reconnectTimeoutRef,  \* useRef(null)      line 16: a timer id or NULL
    chan,                 \* the WebSocket objects: slot -> ready state
    timers,               \* ids of the armed reconnect timers (line 84)
    startPending,         \* POST /api/start requests awaiting their response (line 122)
    resPending,           \* GET /api/results requests awaiting their response (line 103)
    bootTimers,           \* armed setTimeout(fetchBanks) timers, by retryCount (lines 27, 34, 42)
    bootFetches,          \* GET /api/banks requests awaiting their response, by retryCount
    op                    \* the handler that ran last

vars == <<phase, banks, selectedBank, isRunning, logs, results, showResults,
          wsConnected, wsRef, reconnectTimeoutRef, chan, timers, startPending,
          resPending, bootTimers, bootFetches, op>>

---------------------------------------------------------------------------
(* Bounds of the model *)

MaxLog == 3        \* entries the log may hold; an appending handler waits when it is full
MaxChans == 2      \* WebSocket objects that are not yet closed
MaxTimers == 2     \* reconnect timer ids
MaxPosts == 2      \* POST /api/start requests in flight
MaxFetches == 2    \* GET /api/results requests in flight

(* the null of useRef(null), lines 15-16 *)
NULL == 0

(* retryCount <= 3 in place of retryCount < 3 *)
MaxRetries_OffByOne == 3 + 1

(* retryCount < 3, lines 26 and 32 *)
MaxRetries == 3

Slots == 1..MaxChans
TimerIds == 1..MaxTimers

---------------------------------------------------------------------------
(* Inputs *)

BankA == [id |-> "BANK_A", name |-> "Bank A"]

(* GET /api/banks: data.banks absent, empty or a list *)
BanksResponses ==
    { [has |-> FALSE, banks |-> <<>>],
      [has |-> TRUE,  banks |-> <<>>],
      [has |-> TRUE,  banks |-> <<BankA>>] }

(* GET /api/results: data.results absent, empty or a list *)
ResultsResponses ==
    { [has |-> FALSE, results |-> <<>>],
      [has |-> TRUE,  results |-> <<>>],
      [has |-> TRUE,  results |-> <<"tender1">>] }

(* err.message of a failed start: the Error thrown at line 123, or fetch's own *)
StartErrors == { "Failed to start automation", "Failed to fetch" }

(* event.data of the inbound frames *)
RawFrames == { "not json", "ping", "log", "progress", "pdf_filtered", "pdf_skipped", "completion" }

(* JSON.parse(event.data), line 64: throws on the frame that is no JSON *)
ParseThrows(raw) == raw = "not json"

JSONparse(raw) ==
    CASE raw = "ping"         -> [type |-> "ping"]
      [] raw = "log"          -> [type |-> "log", level |-> "info", message |-> "m1"]
      [] raw = "log_error"    -> [type |-> "log", level |-> "error", message |-> "m2"]
      [] raw = "progress"     -> [type |-> "progress", stage |-> "scan", current |-> 2,
                                  total |-> 5, message |-> "scanning page"]
      [] raw = "pdf_filtered" -> [type |-> "pdf_status", pdf_name |-> "doc1.pdf",
                                  status |-> "filtered", reason |-> "matched keyword"]
      [] raw = "pdf_skipped"  -> [type |-> "pdf_status", pdf_name |-> "doc1.pdf",
                                  status |-> "skipped", reason |-> "no keyword"]
      [] raw = "completion"   -> [type |-> "completion"]

---------------------------------------------------------------------------
(* Helpers *)

(* A state setter of a component that was unmounted changes nothing. *)
SetState(old, new) == IF phase = "unmounted" THEN old ELSE new

(* the entry put in front: [{level, message}, ...prev] *)
addLog_Prepend(prev, level, message) == <<[level |-> level, message |-> message]>> \o prev

(* addLog, lines 97-99: setLogs(prev => [...prev, {level, message}]) *)
addLog(prev, level, message) == Append(prev, [level |-> level, message |-> message])

(* room for one more entry (the model's bound on the log) *)
CanLog == phase = "unmounted" \/ Len(logs) < MaxLog

FreeSlots == { c \in Slots : chan[c] = "none" }
NewChan == CHOOSE c \in FreeSlots : \A d \in FreeSlots : c <= d

FreeTimers == TimerIds \ timers
NewTimer == CHOOSE t \in FreeTimers : \A u \in FreeTimers : t <= u

(* data.results || [], line 105 *)
ResultsOrEmpty(data) == IF data.has THEN data.results ELSE <<>>

(* data.banks && data.banks.length > 0, line 23 *)
HasBanks(data) == data.has /\ Len(data.banks) > 0

---------------------------------------------------------------------------
Init ==
    /\ phase = "new"
    /\ banks = <<>>
    /\ selectedBank = ""
    /\ isRunning = FALSE
    /\ logs = <<>>
    /\ results = <<>>
    /\ showResults = FALSE
    /\ wsConnected = FALSE
    /\ wsRef = NULL
    /\ reconnectTimeoutRef = NULL
    /\ chan = [c \in Slots |-> "none"]
    /\ timers = {}
    /\ startPending = 0
    /\ resPending = 0
    /\ bootTimers = {}
    /\ bootFetches = {}
    /\ op = "render"

---------------------------------------------------------------------------
(* ConnectionManager *)

(* connectWebSocket, lines 53-95: the constructor returns a socket in the  *)
(* CONNECTING state, or throws and the catch of line 92 runs.              *)
connectWebSocket ==
    \/ /\ chan' = [chan EXCEPT ![NewChan] = "connecting"]
       /\ wsRef' = NewChan
       /\ UNCHANGED wsConnected
    \/ /\ wsConnected' = SetState(wsConnected, FALSE)
       /\ UNCHANGED <<chan, wsRef>>

(* the two mount effects, lines 41-43 and 45-46 *)
Mount ==
    /\ phase = "new"
    /\ phase' = "mounted"
    /\ bootTimers' = {0}
    /\ connectWebSocket
    /\ op' = "mount"
    /\ UNCHANGED <<banks, selectedBank, isRunning, logs, results, showResults,
                   reconnectTimeoutRef, timers, startPending, resPending, bootFetches>>

(* ws.onopen, lines 57-60 *)
OnOpen(c) ==
    /\ chan[c] = "connecting"
    /\ CanLog
    /\ chan' = [chan EXCEPT ![c] = "open"]
    /\ wsConnected' = SetState(wsConnected, TRUE)
    /\ logs' = SetState(logs, addLog(logs, "success", "Connected to server"))
    /\ op' = "onopen"
    /\ UNCHANGED <<phase, banks, selectedBank, isRunning, results, showResults,
                   wsRef, reconnectTimeoutRef, timers, startPending, resPending,
                   bootTimers, bootFetches>>

(* line 78 left out: the flag is kept when the channel reports an error *)
OnError_KeepsFlag(c) ==
    /\ chan[c] \in {"connecting", "open", "closing"}
    /\ chan' = [chan EXCEPT ![c] = "errored"]
    /\ op' = "onerror"
    /\ UNCHANGED <<phase, banks, selectedBank, isRunning, logs, results, showResults,
                   wsConnected, wsRef, reconnectTimeoutRef, timers, startPending,
                   resPending, bootTimers, bootFetches>>

(* onerror given the body of onclose's lines 82-88: it arms the timer too *)
OnError_Reconnects(c) ==
    /\ chan[c] \in {"connecting", "open", "closing"}
    /\ chan' = [chan EXCEPT ![c] = "errored"]
    /\ wsConnected' = SetState(wsConnected, FALSE)
    /\ IF reconnectTimeoutRef = NULL
         THEN /\ CanLog
              /\ FreeTimers # {}
              /\ logs' = SetState(logs, addLog(logs, "warning", "Reconnecting to server..."))
              /\ timers' = timers \cup {NewTimer}
              /\ reconnectTimeoutRef' = NewTimer
         ELSE UNCHANGED <<logs, timers, reconnectTimeoutRef>>
    /\ op' = "onerror"
    /\ UNCHANGED <<phase, banks, selectedBank, isRunning, results, showResults,
                   wsRef, startPending, resPending, bootTimers, bootFetches>>

(* ws.onerror, line 78; the browser delivers a close after it *)
OnError(c) ==
    /\ chan[c] \in {"connecting", "open", "closing"}
    /\ chan' = [chan EXCEPT ![c] = "errored"]
    /\ wsConnected' = SetState(wsConnected, FALSE)
    /\ op' = "onerror"
    /\ UNCHANGED <<phase, banks, selectedBank, isRunning, logs, results, showResults,
                   wsRef, reconnectTimeoutRef, timers, startPending, resPending,
                   bootTimers, bootFetches>>

(* the guard of line 82 inverted *)
ReconnectPending_Inverted == reconnectTimeoutRef = NULL

(* !reconnectTimeoutRef.current, line 82, negated *)
ReconnectPending == reconnectTimeoutRef # NULL

(* ws.onclose, lines 80-89 *)
OnClose(c) ==
    /\ chan[c] \in {"open", "errored", "closing"}
    /\ chan' = [chan EXCEPT ![c] = "none"]
    /\ wsConnected' = SetState(wsConnected, FALSE)
    /\ IF ~ReconnectPending
         THEN /\ CanLog
              /\ FreeTimers # {}
              /\ logs' = SetState(logs, addLog(logs, "warning", "Reconnecting to server..."))
              /\ timers' = timers \cup {NewTimer}
              /\ reconnectTimeoutRef' = NewTimer
         ELSE UNCHANGED <<logs, timers, reconnectTimeoutRef>>
    /\ op' = "onclose"
    /\ UNCHANGED <<phase, banks, selectedBank, isRunning, results, showResults,
                   wsRef, startPending, resPending, bootTimers, bootFetches>>

(* line 85 left out: the token is kept *)
TokenAfterTimer_Kept == reconnectTimeoutRef

(* reconnectTimeoutRef.current = null, line 85 *)
TokenAfterTimer == NULL

(* the callback of the reconnect timer, lines 84-87 *)
ReconnectTimer(t) ==
    /\ t \in timers
    /\ FreeSlots # {}
    /\ timers' = timers \ {t}
    /\ reconnectTimeoutRef' = TokenAfterTimer
    /\ connectWebSocket
    /\ op' = "reconnectTimer"
    /\ UNCHANGED <<phase, banks, selectedBank, isRunning, logs, results, showResults,
                   startPending, resPending, bootTimers, bootFetches>>

(* wsRef.current.close(), line 48: a socket that is connecting or open starts *)
(* closing, its close event comes later; any other socket is left as it is.   *)
CloseCurrent ==
    IF wsRef # NULL /\ chan[wsRef] \in {"connecting", "open"}
        THEN [chan EXCEPT ![wsRef] = "closing"]
        ELSE chan

(* clearTimeout(reconnectTimeoutRef.current), line 49: the ref keeps its value *)
ClearReconnect ==
    IF reconnectTimeoutRef # NULL THEN timers \ {reconnectTimeoutRef} ELSE timers

(* the cleanup of the effect, lines 47-50, run when the component unmounts: *)
(* the handlers of the socket stay attached, the timers and requests of the *)
(* other handlers stay pending.                                             *)
Cleanup ==
    /\ phase = "mounted"
    /\ phase' = "unmounted"
    /\ chan' = CloseCurrent
    /\ timers' = ClearReconnect
    /\ op' = "cleanup"
    /\ UNCHANGED <<banks, selectedBank, isRunning, logs, results, showResults,
                   wsConnected, wsRef, reconnectTimeoutRef, startPending, resPending,
                   bootTimers, bootFetches>>

(* a call of connectWebSocket by a caller other than the effect and the timer *)
CallConnect ==
    /\ phase = "mounted"
    /\ FreeSlots # {}
    /\ connectWebSocket
    /\ op' = "connect"
    /\ UNCHANGED <<phase, banks, selectedBank, isRunning, logs, results, showResults,
                   reconnectTimeoutRef, timers, startPending, resPending,
                   bootTimers, bootFetches>>

---------------------------------------------------------------------------
(* ResultsLoader *)

(* fetchResults up to its first await, lines 101-103 *)
FetchResultsIssued == resPending + 1

(* fetchResults after a response that parses, lines 104-107 *)
FetchResultsOk(data) ==
    /\ resPending > 0
    /\ CanLog
    /\ resPending' = resPending - 1
    /\ results' = SetState(results, ResultsOrEmpty(data))
    /\ showResults' = SetState(showResults, TRUE)
    /\ logs' = SetState(logs, addLog(logs, "info",
                 "Found " \o ToString(Len(ResultsOrEmpty(data))) \o " processed tenders"))
    /\ op' = "fetchResultsOk"
    /\ UNCHANGED <<phase, banks, selectedBank, isRunning, wsConnected, wsRef,
                   reconnectTimeoutRef, chan, timers, startPending, bootTimers, bootFetches>>

(* fetchResults after a failed fetch or parse, lines 108-110 *)
FetchResultsFail ==
    /\ resPending > 0
    /\ CanLog
    /\ resPending' = resPending - 1
    /\ logs' = SetState(logs, addLog(logs, "error", "Failed to fetch results"))
    /\ op' = "fetchResultsFail"
    /\ UNCHANGED <<phase, banks, selectedBank, isRunning, results, showResults,
                   wsConnected, wsRef, reconnectTimeoutRef, chan, timers, startPending,
                   bootTimers, bootFetches>>

---------------------------------------------------------------------------
(* EventRouter *)

(* the two levels of line 69 exchanged *)
MessageEntry_LevelsSwapped(m) ==
    CASE m.type = "log" -> [level |-> m.level, message |-> m.message]
      [] m.type = "progress" ->
            [level |-> "progress",
             message |-> m.stage \o ": " \o ToString(m.current) \o "/"
                         \o ToString(m.total) \o " - " \o m.message]
      [] m.type = "pdf_status" ->
            [level |-> IF m.status = "filtered" THEN "warning" ELSE "success",
             message |-> m.pdf_name \o ": " \o m.reason]

(* the log entry of a log, progress or pdf_status message, lines 65-69 *)
MessageEntry(m) ==
    CASE m.type = "log" -> [level |-> m.level, message |-> m.message]
      [] m.type = "progress" ->
            [level |-> "progress",
             message |-> m.stage \o ": " \o ToString(m.current) \o "/"
                         \o ToString(m.total) \o " - " \o m.message]
      [] m.type = "pdf_status" ->
            [level |-> IF m.status = "filtered" THEN "success" ELSE "warning",
             message |-> m.pdf_name \o ": " \o m.reason]

(* line 71 left out *)
CompletionRunState_Kept == isRunning

(* setIsRunning(false), line 71 *)
CompletionRunState == FALSE

(* the if-chain with its last 'else if' made an 'else' *)
Branch_ElseCompletion(m) ==
    IF m.type \in {"log", "progress", "pdf_status"} THEN "entry" ELSE "completion"

(* the branch of the if-chain of lines 65-74 that a message takes *)
Branch(m) ==
    IF m.type \in {"log", "progress", "pdf_status"} THEN "entry"
    ELSE IF m.type = "completion" THEN "completion"
    ELSE "none"

(* ws.onmessage, lines 62-76 *)
OnMessage(c, raw) ==
    /\ chan[c] = "open"
    /\ IF ParseThrows(raw)
         THEN UNCHANGED <<isRunning, logs, resPending>>
         ELSE LET m == JSONparse(raw) IN
              CASE Branch(m) = "entry" ->
                      /\ CanLog
                      /\ logs' = SetState(logs, addLog(logs, MessageEntry(m).level,
                                                      MessageEntry(m).message))
                      /\ UNCHANGED <<isRunning, resPending>>
                [] Branch(m) = "completion" ->
                      /\ CanLog
                      /\ resPending < MaxFetches
                      /\ isRunning' = SetState(isRunning, CompletionRunState)
                      /\ logs' = SetState(logs, addLog(logs, "success",
                                                      "Process completed. Loading results."))
                      /\ resPending' = FetchResultsIssued
                [] OTHER -> UNCHANGED <<isRunning, logs, resPending>>
    /\ op' = "onmessage:" \o raw
    /\ UNCHANGED <<phase, banks, selectedBank, results, showResults, wsConnected,
                   wsRef, reconnectTimeoutRef, chan, timers, startPending,
                   bootTimers, bootFetches>>

---------------------------------------------------------------------------
(* JobController *)

(* BankSelector's onChange, lines 147 and 249-261: one of the listed banks, *)
(* or the empty option; the select is disabled while isRunning.             *)
SelectBank(b) ==
    /\ phase = "mounted"
    /\ ~isRunning
    /\ b # selectedBank
    /\ b = "" \/ \E i \in 1..Len(banks) : banks[i].id = b
    /\ selectedBank' = b
    /\ op' = "selectBank"
    /\ UNCHANGED <<phase, banks, isRunning, logs, results, showResults, wsConnected,
                   wsRef, reconnectTimeoutRef, chan, timers, startPending, resPending,
                   bootTimers, bootFetches>>

(* line 115 left out *)
StartRejected_NoConnCheck == selectedBank = ""

(* the early returns of handleStart, lines 114-115 *)
StartRejected == selectedBank = "" \/ ~wsConnected

(* line 117 left out: the entry is appended to the old log *)
StartLog_NoClear == addLog(logs, "info", "Starting automation for " \o selectedBank \o "...")

(* setLogs([]) followed by addLog, lines 117 and 120 *)
StartLog == addLog(<<>>, "info", "Starting automation for " \o selectedBank \o "...")

(* handleStart up to its await, lines 113-122 *)
handleStart ==
    /\ phase = "mounted"
    /\ IF StartRejected
         THEN UNCHANGED <<isRunning, logs, showResults, results, startPending>>
         ELSE /\ startPending < MaxPosts
              /\ isRunning' = TRUE
              /\ logs' = StartLog
              /\ showResults' = FALSE
              /\ results' = <<>>
              /\ startPending' = startPending + 1
    /\ UNCHANGED <<phase, banks, selectedBank, wsConnected, wsRef, reconnectTimeoutRef,
                   chan, timers, resPending, bootTimers, bootFetches>>

(* the START button's disabled attribute, line 151 *)
StartDisabled == isRunning \/ selectedBank = "" \/ ~wsConnected

(* a click on the START button, lines 149-155: a disabled button fires no click *)
ClickStart ==
    /\ ~StartDisabled
    /\ handleStart
    /\ op' = "clickStart"

(* a call of handleStart by a caller other than the button *)
CallHandleStart ==
    /\ handleStart
    /\ op' = "handleStart"

(* handleStart after a 2xx response, line 124 *)
StartOk ==
    /\ startPending > 0
    /\ CanLog
    /\ startPending' = startPending - 1
    /\ logs' = SetState(logs, addLog(logs, "success", "Automation started"))
    /\ op' = "startOk"
    /\ UNCHANGED <<phase, banks, selectedBank, isRunning, results, showResults,
                   wsConnected, wsRef, reconnectTimeoutRef, chan, timers, resPending,
                   bootTimers, bootFetches>>

(* line 127 left out *)
StartFailRunState_Kept == isRunning

(* setIsRunning(false), line 127 *)
StartFailRunState == FALSE

(* handleStart's catch, lines 125-128: the fetch rejected or the response was not ok *)
StartFail(reason) ==
    /\ startPending > 0
    /\ CanLog
    /\ startPending' = startPending - 1
    /\ logs' = SetState(logs, addLog(logs, "error", "Failed to start: " \o reason))
    /\ isRunning' = SetState(isRunning, StartFailRunState)
    /\ op' = "startFail"
    /\ UNCHANGED <<phase, banks, selectedBank, results, showResults, wsConnected,
                   wsRef, reconnectTimeoutRef, chan, timers, resPending,
                   bootTimers, bootFetches>>

---------------------------------------------------------------------------
(* BootstrapLoader *)

(* the timer as a setInterval: it stays armed when it fires *)
BootTimer_Interval(k) ==
    /\ k \in bootTimers
    /\ k \notin bootFetches
    /\ bootTimers' = bootTimers
    /\ bootFetches' = bootFetches \cup {k}
    /\ op' = "fetchBanks"
    /\ UNCHANGED <<phase, banks, selectedBank, isRunning, logs, results, showResults,
                   wsConnected, wsRef, reconnectTimeoutRef, chan, timers, startPending,
                   resPending>>

(* a setTimeout(() => fetchBanks(k)) fires: fetchBanks up to its await, lines 18-20 *)
BootTimer(k) ==
    /\ k \in bootTimers
    /\ bootTimers' = bootTimers \ {k}
    /\ bootFetches' = bootFetches \cup {k}
    /\ op' = "fetchBanks"
    /\ UNCHANGED <<phase, banks, selectedBank, isRunning, logs, results, showResults,
                   wsConnected, wsRef, reconnectTimeoutRef, chan, timers, startPending,
                   resPending>>

(* fetchBanks after a response that parses, lines 21-30 *)
BanksOk(k, data) ==
    /\ k \in bootFetches
    /\ bootFetches' = bootFetches \ {k}
    /\ IF HasBanks(data)
         THEN /\ CanLog
              /\ banks' = SetState(banks, data.banks)
              /\ logs' = SetState(logs, addLog(logs, "success",
                                "Loaded " \o ToString(Len(data.banks)) \o " bank(s)"))
              /\ UNCHANGED bootTimers
         ELSE IF k < MaxRetries
         THEN /\ bootTimers' = bootTimers \cup {k + 1}
              /\ UNCHANGED <<banks, logs>>
         ELSE /\ CanLog
              /\ logs' = SetState(logs, addLog(logs, "error", "No banks found in config"))
              /\ UNCHANGED <<banks, bootTimers>>
    /\ op' = IF HasBanks(data) THEN "banksOk" ELSE "banksEmpty"
    /\ UNCHANGED <<phase, selectedBank, isRunning, results, showResults, wsConnected,
                   wsRef, reconnectTimeoutRef, chan, timers, startPending, resPending>>

(* fetchBanks's catch, lines 31-38 *)
BanksFail(k) ==
    /\ k \in bootFetches
    /\ CanLog
    /\ bootFetches' = bootFetches \ {k}
    /\ IF k < MaxRetries
         THEN /\ logs' = SetState(logs, addLog(logs, "warning",
                                "Retrying to fetch banks... (" \o ToString(k + 1) \o "/3)"))
              /\ bootTimers' = bootTimers \cup {k + 1}
         ELSE /\ logs' = SetState(logs, addLog(logs, "error",
                                                 "Failed to fetch banks. Check backend."))
              /\ UNCHANGED bootTimers
    /\ op' = "banksFail"
    /\ UNCHANGED <<phase, banks, selectedBank, isRunning, results, showResults,
                   wsConnected, wsRef, reconnectTimeoutRef, chan, timers, startPending,
                   resPending>>

---------------------------------------------------------------------------
(* The program: the effects, the events of the browser and of the operator *)
Next ==
    \/ Mount
    \/ \E c \in Slots : OnOpen(c)
    \/ \E c \in Slots : OnError(c)
    \/ \E c \in Slots : OnClose(c)
    \/ \E t \in TimerIds : ReconnectTimer(t)
    \/ Cleanup
    \/ \E c \in Slots, raw \in RawFrames : OnMessage(c, raw)
    \/ \E data \in ResultsResponses : FetchResultsOk(data)
    \/ FetchResultsFail
    \/ \E b \in {"", BankA.id} : SelectBank(b)
    \/ ClickStart
    \/ StartOk
    \/ \E reason \in StartErrors : StartFail(reason)
    \/ \E k \in 0..MaxRetries : BootTimer(k)
    \/ \E k \in 0..MaxRetries, data \in BanksResponses : BanksOk(k, data)
    \/ \E k \in 0..MaxRetries : BanksFail(k)

Spec == Init /\ [][Next]_vars

(* The program and, in any state of the mounted component, calls of connectWebSocket *)
NextConnect ==
    \/ Next
    \/ CallConnect

SpecConnect == Init /\ [][NextConnect]_vars

(* The program and, in any state of the mounted component, calls of handleStart *)
NextStart ==
    \/ Next
    \/ CallHandleStart

SpecStart == Init /\ [][NextStart]_vars

(* The program with a second kind of log frame on the channel *)
NextLogs ==
    \/ Next
    \/ \E c \in Slots : OnMessage(c, "log_error")

SpecLogs == Init /\ [][NextLogs]_vars

(* The program under the fairness the browser gives: an armed reconnect *)
(* timer (setTimeout, line 84) that is not cleared does fire.            *)
SpecFair == Spec /\ WF_vars(\E t \in TimerIds : ReconnectTimer(t))

---------------------------------------------------------------------------
(* Steps and entries the properties speak of *)

ReconnectingEntry == [level |-> "warning", message |-> "Reconnecting to server..."]
CompletedEntry == [level |-> "success", message |-> "Process completed. Loading results."]

(* the number of 'Reconnecting' entries of a log *)
ReconnectingCount(lg) == Cardinality({ i \in 1..Len(lg) : lg[i] = ReconnectingEntry })

(* lg2 is lg1 with exactly the entry e appended *)
AppendedOne(lg1, lg2, e) == lg2 = Append(lg1, e)

(* the step is a close event / a connectWebSocket whose constructor threw / *)
(* the firing of a reconnect timer / a completion frame                     *)
CloseStep == op' = "onclose" /\ chan' # chan
ConnectThrewStep == op' \in {"mount", "reconnectTimer", "connect"} /\ chan' = chan /\ vars' # vars
CompletionStep == op' = "onmessage:completion" /\ resPending' # resPending
StartCallStep == op' \in {"handleStart", "clickStart"}

---------------------------------------------------------------------------
(* C1: single-flight reconnection.  At most one reconnect timer is armed   *)
(* in every state; a close event delivered while none is armed arms        *)
(* exactly one timer, makes it the pending token and (in the mounted       *)
(* component) appends exactly one 'Reconnecting' entry; a close event      *)
(* delivered while one is armed arms nothing and logs nothing; no other    *)
(* step arms a timer or adds a 'Reconnecting' entry.  Hence N closes in a  *)
(* row give N scheduled attempts and N entries.                            *)
C1_SingleFlight ==
    [][ /\ Cardinality(timers') <= 1
        /\ (CloseStep /\ timers = {}) =>
              /\ Cardinality(timers') = 1
              /\ reconnectTimeoutRef' \in timers'
              /\ phase = "mounted" => AppendedOne(logs, logs', ReconnectingEntry)
        /\ (CloseStep /\ timers # {}) =>
              /\ timers' = timers
              /\ logs' = logs
        /\ ~CloseStep =>
              /\ timers' \subseteq timers
              /\ ReconnectingCount(logs') <= ReconnectingCount(logs) ]_vars

(* the second close in a row has scheduled the second attempt *)
C1_Witness ==
    /\ op = "onclose"
    /\ phase = "mounted"
    /\ Cardinality(timers) = 1
    /\ ReconnectingCount(logs) = 2

(* C2: after shutdown no reconnect timer is pending and no connect attempt *)
(* is made.                                                                *)
C2_NoRetryAfterShutdown ==
    phase = "unmounted" => (timers = {} /\ op # "reconnectTimer")

(* C3: a constructor failure inside connectWebSocket is handled like a     *)
(* close: connectivity becomes Disconnected and, no reconnection being     *)
(* pending, exactly one reconnection attempt is scheduled.                 *)
C3_ConstructionFailureReconnects ==
    [][ ConnectThrewStep =>
          /\ phase' = "mounted" => ~wsConnected'
          /\ Cardinality(timers') = 1
          /\ reconnectTimeoutRef' \in timers' ]_vars

(* C4: reconnection is indefinite.  Before shutdown every close event      *)
(* leaves a reconnect timer armed, and an armed timer leads to its firing  *)
(* (unless the component is shut down first); the firing clears the token  *)
(* and calls connectWebSocket, which creates the next socket or throws.    *)
C4_ReconnectIndefinite ==
    /\ []((phase = "mounted" /\ op = "onclose") => timers # {})
    /\ (phase = "mounted" /\ timers # {})
          ~> \/ phase = "unmounted"
             \/ /\ op = "reconnectTimer"
                /\ timers = {}
                /\ reconnectTimeoutRef = NULL
                /\ (wsRef # NULL /\ chan[wsRef] = "connecting") \/ ~wsConnected

(* the timer of a second close in a row has fired and connected again *)
C4_Witness ==
    /\ op = "reconnectTimer"
    /\ phase = "mounted"
    /\ reconnectTimeoutRef = NULL
    /\ wsRef # NULL /\ chan[wsRef] = "connecting"
    /\ ReconnectingCount(logs) = 2

(* C5: connectWebSocket called while Connected creates no new socket. *)
C5_ConnectIdempotent ==
    [][ (op' = "connect" /\ wsConnected) => chan' = chan ]_vars

(* C6: handleStart called with no bank selected or while not Connected     *)
(* changes neither the run state, the log, the results nor their           *)
(* visibility, and issues no POST /api/start.                              *)
C6_RejectedStartIsNoOp ==
    [][ (StartCallStep /\ (selectedBank = "" \/ ~wsConnected)) =>
          UNCHANGED <<isRunning, logs, results, showResults, startPending>> ]_vars

(* handleStart was called with a bank selected, while Disconnected, with   *)
(* results of an earlier run stored: they are still there                  *)
C6_Witness ==
    /\ op = "handleStart"
    /\ selectedBank # ""
    /\ ~wsConnected
    /\ results # <<>>
    /\ showResults
    /\ logs # <<>>

(* C7: no concurrent runs.  handleStart called while the run state is      *)
(* Running is a no-op: the log is not cleared, the results and the run     *)
(* state are left alone and no second POST /api/start is issued.           *)
C7_StartWhileRunningIsNoOp ==
    [][ (StartCallStep /\ isRunning) =>
          UNCHANGED <<isRunning, logs, results, showResults, startPending>> ]_vars

(* C8: a failed start sets the run state to not running and appends        *)
(* exactly one entry, of level error.                                      *)
C8_FailedStartReturnsToIdle ==
    [][ (op' = "startFail" /\ startPending' # startPending /\ phase = "mounted") =>
          /\ ~isRunning'
          /\ \E reason \in StartErrors :
                AppendedOne(logs, logs',
                            [level |-> "error", message |-> "Failed to start: " \o reason]) ]_vars

(* the start of a run has failed: not running, the error entry is the last *)
C8_Witness ==
    /\ op = "startFail"
    /\ phase = "mounted"
    /\ ~isRunning
    /\ Len(logs) = 2
    /\ logs[1].message = "Starting automation for BANK_A..."
    /\ logs[2].level = "error"

(* C9: an accepted start sets the run state to Running, the result set to  *)
(* empty and hidden, issues one POST /api/start, and leaves the log        *)
(* holding exactly the one info entry 'Starting automation for <bank>...'. *)
C9_AcceptedStart ==
    [][ (StartCallStep /\ selectedBank # "" /\ wsConnected) =>
          /\ isRunning'
          /\ logs' = << [level |-> "info",
                         message |-> "Starting automation for " \o selectedBank \o "..."] >>
          /\ results' = <<>>
          /\ ~showResults'
          /\ startPending' = startPending + 1 ]_vars

(* a second start was accepted while the POST of an earlier run (whose log *)
(* held the entries of that run) is still outstanding                      *)
C9_Witness ==
    /\ op = "clickStart"
    /\ isRunning
    /\ startPending = 2
    /\ Len(logs) = 1
    /\ results = <<>>

(* C10: a completion frame, in whatever run state, sets the run state to   *)
(* not running, appends exactly the success entry and calls fetchResults   *)
(* once; the entry of that fetchResults is written by a later step, the    *)
(* arrival of the response of a pending request.                           *)
C10_Completion ==
    [][ /\ CompletionStep =>
              /\ resPending' = resPending + 1
              /\ phase = "mounted" =>
                    /\ ~isRunning'
                    /\ AppendedOne(logs, logs', CompletedEntry)
        /\ (op' \in {"fetchResultsOk", "fetchResultsFail"} /\ vars' # vars) =>
              /\ resPending > 0
              /\ resPending' = resPending - 1
        /\ (~CompletionStep) => resPending' <= resPending ]_vars

(* a completion frame has arrived in a component that never started a run *)
C10_Witness ==
    /\ op = "onmessage:completion"
    /\ phase = "mounted"
    /\ banks = <<>>
    /\ ~isRunning
    /\ resPending = 1
    /\ logs[Len(logs)] = CompletedEntry

(* lg1 is an initial part of lg2 *)
IsPrefix(lg1, lg2) == Len(lg1) <= Len(lg2) /\ SubSeq(lg2, 1, Len(lg1)) = lg1

(* the step is a call of handleStart that passes its two early returns *)
AcceptedStartStep == StartCallStep /\ selectedBank # "" /\ wsConnected

(* the step is the delivery of the frame raw to the mounted component *)
FrameStep(raw) == op' = "onmessage:" \o raw /\ phase = "mounted"

(* C11: the log is append-only and in arrival order.  A log frame appends  *)
(* exactly its {level, message} at the end of the log; every step other    *)
(* than an accepted start leaves the entries already in the log in place   *)
(* and unchanged and adds at most one entry after them.                    *)
C11_AppendOnly ==
    [][ /\ \A raw \in {"log", "log_error"} :
              FrameStep(raw) =>
                  logs' = Append(logs, [level |-> JSONparse(raw).level,
                                        message |-> JSONparse(raw).message])
        /\ ~AcceptedStartStep =>
              /\ IsPrefix(logs, logs')
              /\ Len(logs') <= Len(logs) + 1 ]_vars

(* two different log frames have arrived one after the other: their        *)
(* entries are in the log in that order                                    *)
C11_Witness ==
    /\ op = "onmessage:log_error"
    /\ Len(logs) = 3
    /\ logs[2] = [level |-> "info", message |-> "m1"]
    /\ logs[3] = [level |-> "error", message |-> "m2"]

(* the retryCounts of the bank timers that are armed and of the bank       *)
(* requests that are in flight                                             *)
BootPending == bootTimers \cup bootFetches

(* how far the bootstrap has come: 0 before the mount, 2k+1 while the timer *)
(* of attempt k is armed, 2k+2 while its request is in flight, 9 when no    *)
(* attempt is left                                                         *)
BootStage ==
    IF phase = "new" THEN 0
    ELSE IF bootTimers # {} THEN 2 * (CHOOSE k \in bootTimers : TRUE) + 1
    ELSE IF bootFetches # {} THEN 2 * (CHOOSE k \in bootFetches : TRUE) + 2
    ELSE 9

(* the step is the start of a bank request / the end of one *)
BanksIssueStep == op' = "fetchBanks" /\ bootTimers' # bootTimers
BanksEndStep == op' \in {"banksOk", "banksEmpty", "banksFail"} /\ bootFetches' # bootFetches

(* C12: fetchBanks makes at most 4 attempts and terminates.  The attempts  *)
(* carry the retryCounts 0..3 and every step of the loader moves it        *)
(* strictly forward through timer 0, request 0, ..., request 3, done, so   *)
(* no fifth request is made.  A response with a non-empty list ends the    *)
(* loader, stores the list and logs one success entry; an empty or failed  *)
(* attempt before the fourth arms the timer of the next attempt and leaves *)
(* the list alone; an empty or failed fourth attempt ends the loader with  *)
(* exactly one error entry and the list unchanged.  Nothing else changes   *)
(* the list, so it stays empty when all 4 attempts fail.                   *)
C12_BoundedBootstrap ==
    [][ /\ Cardinality(BootPending') <= 1
        /\ BootPending' \subseteq 0..3
        /\ BootStage' >= BootStage
        /\ (BanksIssueStep \/ BanksEndStep) => BootStage' > BootStage
        /\ BanksIssueStep => bootFetches' = bootTimers /\ bootTimers' = {}
        /\ BanksEndStep =>
              LET k == CHOOSE j \in bootFetches : TRUE IN
              /\ op' = "banksOk" =>
                    /\ BootPending' = {}
                    /\ phase = "mounted" =>
                          /\ banks' = <<BankA>>
                          /\ AppendedOne(logs, logs', [level |-> "success",
                                                       message |-> "Loaded 1 bank(s)"])
              /\ (op' # "banksOk" /\ k < 3) =>
                    /\ bootTimers' = {k + 1} /\ bootFetches' = {}
                    /\ banks' = banks
                    /\ op' = "banksEmpty" => logs' = logs
                    /\ (op' = "banksFail" /\ phase = "mounted") =>
                          /\ Len(logs') = Len(logs) + 1
                          /\ logs'[Len(logs')].level = "warning"
              /\ (op' # "banksOk" /\ k = 3) =>
                    /\ BootPending' = {}
                    /\ banks' = banks
                    /\ phase = "mounted" =>
                          /\ IsPrefix(logs, logs')
                          /\ Len(logs') = Len(logs) + 1
                          /\ logs'[Len(logs')].level = "error"
        /\ (op' # "banksOk") => banks' = banks ]_vars

(* the fourth attempt, made after the third one failed, returned a list *)
C12_Witness ==
    /\ op = "banksOk"
    /\ banks = <<BankA>>
    /\ BootPending = {}
    /\ Len(logs) >= 2
    /\ logs[Len(logs) - 1].message = "Retrying to fetch banks... (3/3)"
    /\ logs[Len(logs)].message = "Loaded 1 bank(s)"

(* C13: after a failed fetchResults an error entry is logged and the       *)
(* result set is empty: no rows of an earlier load remain stored.          *)
C13_FailedLoadClearsResults ==
    [][ (op' = "fetchResultsFail" /\ resPending' # resPending /\ phase = "mounted") =>
          /\ AppendedOne(logs, logs', [level |-> "error",
                                       message |-> "Failed to fetch results"])
          /\ results' = <<>> ]_vars

(* a bank is selected or can still be selected: the select lists only the  *)
(* banks that were loaded, and only fetchBanks loads them                  *)
SourceSelectable == selectedBank # "" \/ banks # <<>> \/ BootPending # {}

(* once the mounted component has no selectable bank it never has one      *)
(* again, and no call of handleStart passes the selectedBank check         *)
ExhaustedIsFinal ==
    [][ (phase = "mounted" /\ ~SourceSelectable) =>
            (~SourceSelectable' /\ ~AcceptedStartStep) ]_vars

(* C14: restartability.  From every state of the mounted component a state *)
(* in which handleStart is accepted with a selected bank can still be      *)
(* reached; such a state needs a selectable bank, so every state of the   *)
(* mounted component has one.                                              *)
C14_Restartable == phase = "mounted" => SourceSelectable

(* C15: protocol errors are no-ops.  A frame that JSON.parse rejects, and  *)
(* a frame whose type is none of log, progress, pdf_status, completion,    *)
(* change nothing: not the log, the run state, the results, the connection *)
(* flag, the reconnect token or its timers, and no request is started; the *)
(* channel that delivered the frame stays open, so that its later frames   *)
(* are delivered to the same handler.                                      *)
C15_ProtocolErrorsAreNoOps ==
    [][ \A raw \in {"not json", "ping"} :
          FrameStep(raw) =>
            /\ UNCHANGED <<logs, isRunning, results, showResults, wsConnected,
                           reconnectTimeoutRef, timers, resPending, startPending,
                           banks, selectedBank, wsRef, chan>>
            /\ \E c \in Slots : chan[c] = "open" /\ chan'[c] = "open" ]_vars

C15_Witness ==
    /\ phase = "mounted"
    /\ op = "onmessage:ping"
    /\ isRunning
    /\ wsConnected
    /\ wsRef # NULL
    /\ chan[wsRef] = "open"
    /\ resPending = 0
    /\ logs = <<[level |-> "info", message |-> "Starting automation for BANK_A..."]>>

(* C16: event-to-entry mapping.  A pdf_status frame appends exactly one     *)
(* entry, of level 'success' when its status is 'filtered' and 'warning'   *)
(* otherwise, with the message '<pdf_name>: <reason>'; a progress frame    *)
(* appends exactly one entry of level 'progress' with the message          *)
(* '<stage>: <current>/<total> - <message>'; neither changes isRunning,    *)
(* results or showResults.                                                 *)
C16_EventToEntry ==
    [][ /\ FrameStep("pdf_filtered") =>
              /\ AppendedOne(logs, logs', [level |-> "success",
                                           message |-> "doc1.pdf: matched keyword"])
              /\ UNCHANGED <<isRunning, results, showResults>>
        /\ FrameStep("pdf_skipped") =>
              /\ AppendedOne(logs, logs', [level |-> "warning",
                                           message |-> "doc1.pdf: no keyword"])
              /\ UNCHANGED <<isRunning, results, showResults>>
        /\ FrameStep("progress") =>
              /\ AppendedOne(logs, logs', [level |-> "progress",
                                           message |-> "scan: 2/5 - scanning page"])
              /\ UNCHANGED <<isRunning, results, showResults>> ]_vars

C16_Witness ==
    /\ phase = "mounted"
    /\ op = "onmessage:pdf_skipped"
    /\ isRunning
    /\ logs = << [level |-> "info", message |-> "Starting automation for BANK_A..."],
                 [level |-> "progress", message |-> "scan: 2/5 - scanning page"],
                 [level |-> "warning", message |-> "doc1.pdf: no keyword"] >>

(* the step is an event of the channel: open, error, close, a frame, or the *)
(* firing of the reconnect timer                                           *)
ChannelStep ==
    op' \in {"onopen", "onerror", "onclose", "reconnectTimer"}
            \cup { "onmessage:" \o raw : raw \in RawFrames }

(* C17: the bank requests are strictly sequential.  In every state at most *)
(* one bank request is in flight or one bank timer is armed, never both    *)
(* and never two; a bank timer is armed only by the mount or by the step   *)
(* that ends the one request in flight; and no channel event arms or       *)
(* clears a bank timer or starts or ends a bank request.                   *)
C17_SequentialBootstrap ==
    [][ /\ Cardinality(bootTimers') + Cardinality(bootFetches') <= 1
        /\ bootTimers' # bootTimers /\ bootTimers' # {} =>
              \/ op' = "mount" /\ bootFetches' = {}
              \/ /\ BanksEndStep
                 /\ Cardinality(bootFetches) = 1
                 /\ bootFetches' = {}
                 /\ bootTimers = {}
        /\ bootFetches' # bootFetches /\ bootFetches' # {} =>
              /\ BanksIssueStep
              /\ bootFetches = {}
              /\ bootTimers' = {}
        /\ ChannelStep => UNCHANGED <<bootTimers, bootFetches>> ]_vars

C17_Witness ==
    /\ phase = "mounted"
    /\ op = "onclose"
    /\ timers # {}
    /\ bootFetches = {2}
    /\ bootTimers = {}
    /\ logs[Len(logs)] = ReconnectingEntry

(* the step is an error event of a channel *)
ErrorStep == op' = "onerror" /\ chan' # chan

(* C18: an error event only disconnects.  It sets wsConnected to false in  *)
(* the mounted component and changes nothing else: it arms no reconnect    *)
(* timer, sets no token and appends no entry.  A reconnect timer is armed  *)
(* by close events only.                                                   *)
C18_ErrorOnlyDisconnects ==
    [][ /\ ErrorStep =>
              /\ phase = "mounted" => ~wsConnected'
              /\ UNCHANGED <<timers, reconnectTimeoutRef, logs, wsRef, isRunning,
                             results, showResults, banks, selectedBank,
                             startPending, resPending, bootTimers, bootFetches>>
        /\ timers' \ timers # {} => CloseStep
        /\ (reconnectTimeoutRef' # reconnectTimeoutRef /\ reconnectTimeoutRef' # NULL)
              => CloseStep ]_vars

C18_Witness ==
    /\ phase = "mounted"
    /\ op = "onerror"
    /\ ~wsConnected
    /\ wsRef # NULL
    /\ chan[wsRef] = "errored"
    /\ timers = {}
    /\ reconnectTimeoutRef = NULL
    /\ logs = <<[level |-> "success", message |-> "Connected to server"]>>

(* the results table is rendered, line 166 *)
ResultsShown == showResults /\ results # <<>>

(* C19: results do not leak across runs.  Whenever the mounted component   *)
(* is running, results is empty and no results table is shown: a response  *)
(* of GET /api/results that arrives after a later accepted start does not  *)
(* fill the results of the new run.                                        *)
C19_NoLeakAcrossRuns ==
    (phase = "mounted" /\ isRunning) => (results = <<>> /\ ~ResultsShown)

(* C20: the connectivity flag is consistent.  In every state of the        *)
(* mounted component in which wsConnected is true, no reconnect timer is   *)
(* armed, no token is set, and the channel created last (the one wsRef     *)
(* holds) has opened and has reported neither error nor close; hence no    *)
(* call of handleStart is accepted while a reconnect timer is armed.       *)
C20_FlagConsistency ==
    [][ /\ (phase' = "mounted" /\ wsConnected') =>
              /\ timers' = {}
              /\ reconnectTimeoutRef' = NULL
              /\ wsRef' # NULL
              /\ chan'[wsRef'] = "open"
        /\ (AcceptedStartStep /\ phase = "mounted") =>
              /\ timers = {}
              /\ reconnectTimeoutRef = NULL
              /\ isRunning' ]_vars

C20_Witness ==
    /\ phase = "mounted"
    /\ op = "handleStart"
    /\ wsConnected
    /\ isRunning
    /\ startPending = 1
    /\ timers = {}
    /\ reconnectTimeoutRef = NULL
    /\ wsRef # NULL
    /\ chan[wsRef] = "open"
    /\ logs = <<[level |-> "info", message |-> "Starting automation for BANK_A..."]>>

=============================================================================
